---- MODULE Spec2Model ----
(***************************************************************************)
(* Model of src/app.py: the batch pipeline that turns assignment rows into *)
(* week-aligned effort segments, aggregates them and filters them for the  *)
(* Gantt chart.                                                            *)
(*                                                                         *)
(* Conventions of the model                                                *)
(*  - A date is the number of days since Monday 2024-01-01, so that        *)
(*    Timestamp.weekday() (Monday = 0) is d % 7.  Date cells are calendar  *)
(*    dates (midnight timestamps), as in the spec's data model.            *)
(*  - A spreadsheet cell is a record [k, v]: k = "val" for a usable value, *)
(*    "nan" for a missing cell (None / NaN / NaT) and "text" for a cell    *)
(*    whose text is neither a date nor a number.                           *)
(*  - A skill string is a sequence of one-character strings; a project     *)
(*    name is a sequence of code points, the order sorted() compares by.   *)
(***************************************************************************)
EXTENDS Integers, Sequences, FiniteSets, TLC

VARIABLES dataset, df, idx, current_start, rows, origin, weekly_sum,
          expanded_df, start_date, end_date, consultant_names,
          selected_skills, filtered_df, warnings, error, pc

vars == <<dataset, df, idx, current_start, rows, origin, weekly_sum,
          expanded_df, start_date, end_date, consultant_names,
          selected_skills, filtered_df, warnings, error, pc>>

(***************************************************************************)
(* Bounds                                                                  *)
(***************************************************************************)
MaxRows == 2
MaxDay == 16

(***************************************************************************)
(* Cells                                                                   *)
(***************************************************************************)
Num(n) == [k |-> "val", v |-> n]
NaN == [k |-> "nan", v |-> 0]
BadNum == [k |-> "text", v |-> 0]
Str(s) == [k |-> "val", v |-> s]
NoStr == [k |-> "nan", v |-> <<>>]

notnull(c) == c.k # "nan"

Range(s) == {s[i] : i \in 1..Len(s)}

(***************************************************************************)
(* str.split(","), str.strip() and extract_skills (lines 27-30)            *)
(***************************************************************************)
RECURSIVE split(_)
split(s) ==
    IF \E i \in 1..Len(s) : s[i] = ","
    THEN LET i == CHOOSE i \in 1..Len(s) :
                      s[i] = "," /\ \A j \in 1..(i - 1) : s[j] # ","
         IN  <<SubSeq(s, 1, i - 1)>> \o split(SubSeq(s, i + 1, Len(s)))
    ELSE <<s>>

RECURSIVE lstrip(_)
lstrip(s) == IF s # <<>> /\ Head(s) = " " THEN lstrip(Tail(s)) ELSE s

RECURSIVE rstrip(_)
rstrip(s) ==
    IF s # <<>> /\ s[Len(s)] = " " THEN rstrip(SubSeq(s, 1, Len(s) - 1)) ELSE s

strip(s) == rstrip(lstrip(s))

NonEmpty(s) == s # <<>>

extract_skills(row) ==
    LET core == IF notnull(row.CoreSkill) THEN split(row.CoreSkill.v) ELSE <<>>
        other == IF notnull(row.OtherSkills) THEN split(row.OtherSkills.v) ELSE <<>>
        both == core \o other
    IN  SelectSeq([i \in 1..Len(both) |-> strip(both[i])], NonEmpty)

(***************************************************************************)
(* drop_duplicates (line 18): keeps the first occurrence of each row       *)
(***************************************************************************)
RECURSIVE drop_duplicates(_)
drop_duplicates(s) ==
    IF s = <<>> THEN <<>>
    ELSE LET init == SubSeq(s, 1, Len(s) - 1)
             last == s[Len(s)]
         IN  IF last \in Range(init) THEN drop_duplicates(init)
             ELSE Append(drop_duplicates(init), last)

(***************************************************************************)
(* df.explode("Skill_List") (lines 32-33): one row per list element, and   *)
(* one row with a missing Skill for an empty list                          *)
(***************************************************************************)
WithSkill(row, skill) ==
    [Name |-> row.Name, Projects |-> row.Projects, Effort |-> row.Effort,
     Start |-> row.Start, End |-> row.End, CoreSkill |-> row.CoreSkill,
     OtherSkills |-> row.OtherSkills, Skill |-> skill]

ExplodeRow(row) ==
    LET skill_list == extract_skills(row)
    IN  IF skill_list = <<>> THEN <<WithSkill(row, NoStr)>>
        ELSE [i \in 1..Len(skill_list) |-> WithSkill(row, Str(skill_list[i]))]

RECURSIVE explode(_)
explode(s) ==
    IF s = <<>> THEN <<>> ELSE ExplodeRow(Head(s)) \o explode(Tail(s))

(***************************************************************************)
(* Type coercion and dropna (lines 36-39)                                  *)
(***************************************************************************)
to_numeric(c) == IF c.k = "text" THEN NaN ELSE c

Coerced(row) == [row EXCEPT !.Effort = to_numeric(row.Effort)]

Complete(row) == notnull(row.Start) /\ notnull(row.End) /\ notnull(row.Effort)

dropna(s) == SelectSeq(s, Complete)

DateParseFails(s) ==
    \E i \in 1..Len(s) : s[i].Start.k = "text" \/ s[i].End.k = "text"

(***************************************************************************)
(* The week expansion loop body (lines 53-69)                              *)
(***************************************************************************)
weekday(d) == d % 7

\* the week taken to start on Sunday
WeekStartSunday(cur) == cur - weekday(cur) - 1

WeekStart(cur) == cur - weekday(cur)

WeekEnd(week_start) == week_start + 6

Max(a, b) == IF a >= b THEN a ELSE b

Min(a, b) == IF a <= b THEN a ELSE b

PeriodStart(cur, week_start) == Max(cur, week_start)

\* the last week not clipped to the row's end
PeriodEndWholeWeek(end, week_end) == week_end

PeriodEnd(end, week_end) == Min(end, week_end)

\* the cursor moved by a week instead of a day
NextCursorPlusWeek(week_end) == week_end + 7

\* the cursor left on the last day of the week
NextCursorNoStep(week_end) == week_end

NextCursor(week_end) == week_end + 1

Segment(row, cur) ==
    LET week_start == WeekStart(cur)
        week_end == WeekEnd(week_start)
    IN  [Name |-> row.Name, Projects |-> row.Projects,
         week_start |-> week_start,
         Start |-> PeriodStart(cur, week_start),
         End |-> PeriodEnd(row.End.v, week_end),
         Effort |-> row.Effort.v, Skill |-> row.Skill]

(***************************************************************************)
(* groupby(['Name','week_start','Start','End','Skill']).agg (lines 74-82). *)
(* groupby leaves out the rows whose key has a missing component, which    *)
(* here is a missing Skill.                                                *)
(***************************************************************************)
Key(r) == <<r.Name, r.week_start, r.Start, r.End, r.Skill.v>>

GroupKeys(rs) == {Key(rs[i]) : i \in {j \in 1..Len(rs) : notnull(rs[j].Skill)}}

Group(rs, key) == SelectSeq(rs, LAMBDA r : notnull(r.Skill) /\ Key(r) = key)

RECURSIVE sum(_)
sum(s) == IF s = <<>> THEN 0 ELSE Head(s) + sum(Tail(s))

RECURSIVE unique(_)
unique(s) ==
    IF s = <<>> THEN <<>>
    ELSE LET init == SubSeq(s, 1, Len(s) - 1)
             last == s[Len(s)]
         IN  IF last \in Range(init) THEN unique(init)
             ELSE Append(unique(init), last)

\* str < str: code point by code point, a proper prefix first
RECURSIVE StrLess(_, _)
StrLess(a, b) ==
    IF b = <<>> THEN FALSE
    ELSE IF a = <<>> THEN TRUE
    ELSE IF Head(a) # Head(b) THEN Head(a) < Head(b)
    ELSE StrLess(Tail(a), Tail(b))

RECURSIVE Insert(_, _)
Insert(x, s) ==
    IF s = <<>> THEN <<x>>
    ELSE IF StrLess(x, Head(s)) THEN <<x>> \o s
    ELSE <<Head(s)>> \o Insert(x, Tail(s))

RECURSIVE sorted(_)
sorted(s) == IF s = <<>> THEN <<>> ELSE Insert(Head(s), sorted(Tail(s)))

\* ', '.join(parts): 44 is the comma, 32 the space
RECURSIVE join(_)
join(parts) ==
    IF parts = <<>> THEN <<>>
    ELSE IF Len(parts) = 1 THEN parts[1]
    ELSE parts[1] \o <<44, 32>> \o join(Tail(parts))

\* the last effort of the group instead of their sum
AggEffortLast(efforts) == efforts[Len(efforts)]

AggEffort(efforts) == sum(efforts)

\* the names joined in order of appearance
AggProjectsUnsorted(projects) == join(unique(projects))

AggProjects(projects) == join(sorted(unique(projects)))

AggRow(rs, key) ==
    LET g == Group(rs, key)
    IN  [Name |-> key[1], week_start |-> key[2], Start |-> key[3],
         End |-> key[4], Skill |-> key[5],
         EffortPct |-> AggEffort([i \in 1..Len(g) |-> g[i].Effort]),
         Projects |-> AggProjects([i \in 1..Len(g) |-> g[i].Projects])]

Aggregate(rs) == {AggRow(rs, key) : key \in GroupKeys(rs)}

(***************************************************************************)
(* Sidebar values and the filter (lines 89-135)                            *)
(***************************************************************************)
MinOf(S) == CHOOSE x \in S : \A y \in S : x <= y

MaxOf(S) == CHOOSE x \in S : \A y \in S : x >= y

consultant_list(e) == {r.Name : r \in e}

skills(e) == {r.Skill : r \in e}

\* the window taken to exclude its first day
MaskStrict(r, sd, ed, names, sk) ==
    /\ r.Start > sd
    /\ r.End <= ed
    /\ r.Name \in names
    /\ r.Skill \in sk

Mask(r, sd, ed, names, sk) ==
    /\ r.Start >= sd
    /\ r.End <= ed
    /\ r.Name \in names
    /\ r.Skill \in sk

Filter(e, sd, ed, names, sk) == {r \in e : Mask(r, sd, ed, names, sk)}

(***************************************************************************)
(* The uploaded spreadsheets the model runs on                             *)
(***************************************************************************)
RawRow(name, project, effort, start, end, core, other) ==
    [Name |-> name, Projects |-> project, Effort |-> effort, Start |-> start,
     End |-> end, CoreSkill |-> core, OtherSkills |-> other]

\* one assignment over every date range of the horizon (start > end included)
SingleRows ==
    {RawRow("Alice", <<80, 49>>, Num(50), Num(s), Num(e), Str(<<"x">>), NoStr) :
        s \in 0..MaxDay, e \in 0..MaxDay}

RowUniverse ==
    { RawRow("Bob", <<65>>, Num(30), Num(7), Num(13), Str(<<"x">>), NoStr),
      RawRow("Bob", <<66>>, Num(40), Num(7), Num(13), Str(<<"x">>), NoStr),
      RawRow("Bob", <<65, 66>>, Num(40), Num(9), Num(13), Str(<<"x">>), NoStr),
      RawRow("Bob", <<97>>, Num(40), Num(7), Num(13), Str(<<"x">>), NoStr),
      RawRow("Bob", <<65>>, Num(30), Num(7), Num(13),
             Str(<<"x", ",", " ", "y">>), Str(<<" ", "x">>)),
      RawRow("Alice", <<97>>, Num(50), Num(2), Num(15), NoStr, Str(<<>>)),
      RawRow("Alice", <<66>>, BadNum, Num(0), Num(6), Str(<<"y">>), NoStr),
      RawRow("Bob", <<65>>, Num(30), NaN, Num(13), Str(<<"x">>), NoStr),
      RawRow("Bob", <<65>>, Num(30), BadNum, Num(13), Str(<<"x">>), NoStr),
      RawRow("Bob", <<65>>, Num(30), Num(13), Num(7), Str(<<"x">>), NoStr) }

RECURSIVE SeqsUpTo(_, _)
SeqsUpTo(S, n) ==
    IF n = 0 THEN {<<>>}
    ELSE LET shorter == SeqsUpTo(S, n - 1)
         IN  shorter \cup {Append(s, x) : s \in shorter, x \in S}

Datasets ==
    {<<r>> : r \in SingleRows} \cup (SeqsUpTo(RowUniverse, MaxRows) \ {<<>>})

Init ==
    /\ dataset \in Datasets
    /\ df = dataset
    /\ idx = 0
    /\ current_start = 0
    /\ rows = <<>>
    /\ origin = <<>>
    /\ weekly_sum = {}
    /\ expanded_df = {}
    /\ start_date = 0
    /\ end_date = 0
    /\ consultant_names = {}
    /\ selected_skills = {}
    /\ filtered_df = {}
    /\ warnings = {}
    /\ error = "none"
    /\ pc = "dedup"

(***************************************************************************)
(* Lines 17-25: copy, drop_duplicates, rename                              *)
(***************************************************************************)
Dedup ==
    /\ pc = "dedup"
    /\ df' = drop_duplicates(df)
    /\ pc' = "explode"
    /\ UNCHANGED <<dataset, idx, current_start, rows, origin, weekly_sum,
                   expanded_df, start_date, end_date, consultant_names,
                   selected_skills, filtered_df, warnings, error>>

(***************************************************************************)
(* Lines 32-33: Skill_List and explode                                     *)
(***************************************************************************)
Explode ==
    /\ pc = "explode"
    /\ df' = explode(df)
    /\ pc' = "coerce"
    /\ UNCHANGED <<dataset, idx, current_start, rows, origin, weekly_sum,
                   expanded_df, start_date, end_date, consultant_names,
                   selected_skills, filtered_df, warnings, error>>

(***************************************************************************)
(* Lines 36-39: to_datetime raises on text that is no date; to_numeric     *)
(* turns text that is no number into NaN; dropna drops the incomplete rows *)
(***************************************************************************)
Coerce ==
    /\ pc = "coerce"
    /\ ~DateParseFails(df)
    /\ df' = dropna([i \in 1..Len(df) |-> Coerced(df[i])])
    /\ pc' = "expand"
    /\ UNCHANGED <<dataset, idx, current_start, rows, origin, weekly_sum,
                   expanded_df, start_date, end_date, consultant_names,
                   selected_skills, filtered_df, warnings, error>>

CoerceError ==
    /\ pc = "coerce"
    /\ DateParseFails(df)
    /\ error' = "to_datetime: ValueError"
    /\ pc' = "crash"
    /\ UNCHANGED <<dataset, df, idx, current_start, rows, origin, weekly_sum,
                   expanded_df, start_date, end_date, consultant_names,
                   selected_skills, filtered_df, warnings>>

(***************************************************************************)
(* Lines 43-69: for each row, the while loop over the weeks.  origin       *)
(* records, for each emitted segment, the position in df of its row.       *)
(***************************************************************************)
BetweenRows == IF idx = 0 THEN TRUE ELSE current_start > df[idx].End.v

ForNext ==
    /\ pc = "expand"
    /\ BetweenRows
    /\ idx < Len(df)
    /\ idx' = idx + 1
    /\ current_start' = df[idx + 1].Start.v
    /\ UNCHANGED <<dataset, df, rows, origin, weekly_sum, expanded_df,
                   start_date, end_date, consultant_names, selected_skills,
                   filtered_df, warnings, error, pc>>

WhileBody ==
    /\ pc = "expand"
    /\ idx >= 1
    /\ current_start <= df[idx].End.v
    /\ rows' = Append(rows, Segment(df[idx], current_start))
    /\ origin' = Append(origin, idx)
    /\ current_start' = NextCursor(WeekEnd(WeekStart(current_start)))
    /\ UNCHANGED <<dataset, df, idx, weekly_sum, expanded_df, start_date,
                   end_date, consultant_names, selected_skills, filtered_df,
                   warnings, error, pc>>

ForEnd ==
    /\ pc = "expand"
    /\ BetweenRows
    /\ idx = Len(df)
    /\ pc' = "group"
    /\ UNCHANGED <<dataset, df, idx, current_start, rows, origin, weekly_sum,
                   expanded_df, start_date, end_date, consultant_names,
                   selected_skills, filtered_df, warnings, error>>

(***************************************************************************)
(* Lines 71-84: DataFrame(rows), groupby/agg, copy.  A DataFrame built     *)
(* from an empty list has no columns, so groupby raises KeyError: 'Name'.  *)
(***************************************************************************)
GroupBy ==
    /\ pc = "group"
    /\ rows # <<>>
    /\ weekly_sum' = Aggregate(rows)
    /\ expanded_df' = weekly_sum'
    /\ pc' = "sidebar"
    /\ UNCHANGED <<dataset, df, idx, current_start, rows, origin, start_date,
                   end_date, consultant_names, selected_skills, filtered_df,
                   warnings, error>>

GroupByKeyError ==
    /\ pc = "group"
    /\ rows = <<>>
    /\ error' = "groupby: KeyError"
    /\ pc' = "crash"
    /\ UNCHANGED <<dataset, df, idx, current_start, rows, origin, weekly_sum,
                   expanded_df, start_date, end_date, consultant_names,
                   selected_skills, filtered_df, warnings>>

(***************************************************************************)
(* Lines 89-135: the sidebar widgets give the window and the selections,   *)
(* the warnings are shown and the filter is applied.  The date widgets     *)
(* start at min Start and max End and accept any date; the multiselects    *)
(* offer the consultants and skills present.  With no aggregated row the   *)
(* default of a date widget is NaT, which it either rejects                *)
(* (DateInputError) or replaces by some date.                              *)
(***************************************************************************)
StartChoices(e) == IF e = {} THEN {0} ELSE {r.Start : r \in e}

EndChoices(e) == IF e = {} THEN {0} ELSE {r.End : r \in e}

Warnings(names, sk) ==
    (IF names = {} THEN {"Please select at least one consultant."} ELSE {})
    \cup (IF sk = {} THEN {"Please select at least one skill."} ELSE {})

ApplyFilters ==
    /\ pc = "sidebar"
    /\ \E sd \in StartChoices(expanded_df), ed \in EndChoices(expanded_df),
          names \in SUBSET consultant_list(expanded_df),
          sk \in SUBSET skills(expanded_df) :
            /\ start_date' = sd
            /\ end_date' = ed
            /\ consultant_names' = names
            /\ selected_skills' = sk
            /\ warnings' = warnings \cup Warnings(names, sk)
            /\ filtered_df' = Filter(expanded_df, sd, ed, names, sk)
    /\ pc' = "plot"
    /\ UNCHANGED <<dataset, df, idx, current_start, rows, origin, weekly_sum,
                   expanded_df, error>>

DateInputError ==
    /\ pc = "sidebar"
    /\ expanded_df = {}
    /\ error' = "date_input: ValueError"
    /\ pc' = "crash"
    /\ UNCHANGED <<dataset, df, idx, current_start, rows, origin, weekly_sum,
                   expanded_df, start_date, end_date, consultant_names,
                   selected_skills, filtered_df, warnings>>

(***************************************************************************)
(* Lines 138-210: the chart.  With no filtered row min() and max() are     *)
(* NaT, and date_range raises ValueError (lines 158-160).                  *)
(***************************************************************************)
Plot ==
    /\ pc = "plot"
    /\ filtered_df # {}
    /\ pc' = "done"
    /\ UNCHANGED <<dataset, df, idx, current_start, rows, origin, weekly_sum,
                   expanded_df, start_date, end_date, consultant_names,
                   selected_skills, filtered_df, warnings, error>>

GridlinesError ==
    /\ pc = "plot"
    /\ filtered_df = {}
    /\ error' = "date_range: ValueError"
    /\ pc' = "crash"
    /\ UNCHANGED <<dataset, df, idx, current_start, rows, origin, weekly_sum,
                   expanded_df, start_date, end_date, consultant_names,
                   selected_skills, filtered_df, warnings>>

Next ==
    \/ Dedup
    \/ Explode
    \/ Coerce
    \/ CoerceError
    \/ ForNext
    \/ WhileBody
    \/ ForEnd
    \/ GroupBy
    \/ GroupByKeyError
    \/ ApplyFilters
    \/ DateInputError
    \/ Plot
    \/ GridlinesError

Spec == Init /\ [][Next]_vars

\* the interpreter keeps running the loop: a loop step that can be taken is taken
FairSpec == Spec /\ WF_vars(ForNext \/ WhileBody \/ ForEnd)

(***************************************************************************)
(* Vocabulary of the properties                                            *)
(***************************************************************************)
\* the week expansion loop has run over the whole of df
Expanded ==
    \/ pc \in {"group", "sidebar", "plot", "done"}
    \/ pc = "crash" /\ error # "to_datetime: ValueError"

\* the aggregation has run
Aggregated ==
    \/ pc \in {"sidebar", "plot", "done"}
    \/ pc = "crash" /\ error \in {"date_input: ValueError", "date_range: ValueError"}

\* the filter has run
Filtered ==
    \/ pc \in {"plot", "done"}
    \/ pc = "crash" /\ error = "date_range: ValueError"

\* the positions in rows of the segments emitted for the row at position i of df
SegIdx(i) == {j \in 1..Len(rows) : origin[j] = i}

\* the segments of row i, in emission order
SegsOf(i) ==
    LET J == SegIdx(i)
    IN  IF J = {} THEN <<>>
        ELSE [k \in 1..Cardinality(J) |-> rows[MinOf(J) + k - 1]]

Monday(d) == d - (d % 7)

\* the Monday-start weeks a date range touches
WeeksTouched(start, end) == {Monday(d) : d \in start..end}

\* the rows of df with start <= end
Forward == {i \in 1..Len(df) : df[i].Start.v <= df[i].End.v}

(***************************************************************************)
(* C1  Coverage: once the loop has run, the segments of every row with     *)
(* start <= end, in emission order, partition [start, end]: the first      *)
(* begins at start, the last ends at end, each next one begins the day     *)
(* after the previous one ends, and every day of [start, end] lies in      *)
(* exactly one segment.                                                    *)
(***************************************************************************)
Coverage ==
    Expanded =>
        \A i \in Forward :
            LET segs == SegsOf(i)
                n == Len(segs)
                start == df[i].Start.v
                end == df[i].End.v
            IN  /\ n = Cardinality(SegIdx(i))
                /\ n >= 1
                /\ SegIdx(i) = MinOf(SegIdx(i))..MaxOf(SegIdx(i))
                /\ segs[1].Start = start
                /\ segs[n].End = end
                /\ \A k \in 1..(n - 1) : segs[k + 1].Start = segs[k].End + 1
                /\ \A k \in 1..n : segs[k].Start >= start /\ segs[k].End <= end
                /\ \A d \in start..end :
                       Cardinality({k \in 1..n :
                           segs[k].Start <= d /\ d <= segs[k].End}) = 1

CoverageWitness ==
    /\ Expanded
    /\ \E i \in Forward :
           /\ df[i].Start.v % 7 # 0
           /\ df[i].End.v % 7 # 6
           /\ Len(SegsOf(i)) = 3

(***************************************************************************)
(* C2  Week alignment: at every iteration, every emitted segment has a     *)
(* Monday week_start and week_start <= Start <= End <= week_start + 6.     *)
(***************************************************************************)
WeekAlignment ==
    \A j \in 1..Len(rows) :
        /\ weekday(rows[j].week_start) = 0
        /\ rows[j].week_start <= rows[j].Start
        /\ rows[j].Start <= rows[j].End
        /\ rows[j].End <= rows[j].week_start + 6

WeekAlignmentWitness ==
    /\ pc = "expand"
    /\ \E j \in 1..Len(rows) : rows[j].week_start < rows[j].Start
    /\ \E j \in 1..Len(rows) : rows[j].End < rows[j].week_start + 6
    /\ \E j \in 1..Len(rows) :
           /\ rows[j].week_start = rows[j].Start
           /\ rows[j].End = rows[j].week_start + 6

(***************************************************************************)
(* C9  Segment sequence: once the loop has run, every row with             *)
(* start <= end has exactly one segment per Monday-start week that         *)
(* [start, end] touches, in strictly ascending week_start order; a         *)
(* single-day row has one segment; the row from Wednesday 2024-01-03 (day  *)
(* 2) to Tuesday 2024-01-16 (day 15) has the three segments of the weeks   *)
(* of 2024-01-01, 2024-01-08 and 2024-01-15 (days 0, 7 and 14).            *)
(***************************************************************************)
SegmentSequence ==
    Expanded =>
        \A i \in 1..Len(df) :
            LET segs == SegsOf(i)
                start == df[i].Start.v
                end == df[i].End.v
            IN  /\ {segs[k].week_start : k \in 1..Len(segs)}
                       = WeeksTouched(start, end)
                /\ Len(segs) = Cardinality(WeeksTouched(start, end))
                /\ \A k \in 1..(Len(segs) - 1) :
                       segs[k].week_start < segs[k + 1].week_start
                /\ start = end => Len(segs) = 1
                /\ (start = 2 /\ end = 15) =>
                       /\ Len(segs) = 3
                       /\ <<segs[1].week_start, segs[1].Start, segs[1].End>>
                              = <<0, 2, 6>>
                       /\ <<segs[2].week_start, segs[2].Start, segs[2].End>>
                              = <<7, 7, 13>>
                       /\ <<segs[3].week_start, segs[3].Start, segs[3].End>>
                              = <<14, 14, 15>>

SegmentSequenceWitness ==
    /\ Expanded
    /\ \E i \in 1..Len(df) :
           /\ df[i].Start.v = 2
           /\ df[i].End.v = 15
           /\ Len(SegsOf(i)) = 3
    /\ dataset[1].Projects = <<80, 49>>

\* the week expansion loop, once entered, is left
LoopEnds == (pc = "expand") ~> (pc = "group")

(***************************************************************************)
(* C10  Segmenter termination.                                             *)
(* As claimed: the loop terminates, and on each iteration (the first       *)
(* included) the cursor increases by at least 7 days.                      *)
(***************************************************************************)
CursorAdvancesSevenDays ==
    /\ [][WhileBody => current_start' >= current_start + 7]_vars
    /\ LoopEnds

(***************************************************************************)
(* C10 as amended: the loop terminates; on each iteration the cursor       *)
(* strictly increases, by 1 to 7 days, to the next Monday: by exactly 7    *)
(* days when the iteration starts on a Monday, as every iteration after    *)
(* a row's first does, and by fewer when a row starts mid-week; the loop   *)
(* is left once the cursor exceeds end.                                    *)
(***************************************************************************)
SegmenterTerminates ==
    /\ [][WhileBody =>
            /\ current_start' > current_start
            /\ current_start' <= current_start + 7
            /\ weekday(current_start') = 0
            /\ weekday(current_start) = 0 => current_start' = current_start + 7
            /\ current_start' > rows'[Len(rows')].End]_vars
    /\ [][(pc = "expand" /\ idx >= 1 /\ rows' # rows) =>
            current_start <= df[idx].End.v]_vars
    /\ LoopEnds

SegmenterTerminatesWitness ==
    /\ pc = "expand"
    /\ Len(rows) = 2
    /\ origin[1] = origin[2]
    /\ rows[1].Start = 2
    /\ rows[2].Start = rows[1].Start + 5
    /\ current_start = rows[2].Start + 7

(***************************************************************************)
(* Vocabulary of the aggregation properties                                *)
(***************************************************************************)
\* the part of [start, end] inside the week of Monday w
ClipStart(start, w) == IF start >= w THEN start ELSE w

ClipEnd(end, w) == IF end <= w + 6 THEN end ELSE w + 6

\* the record rec (with usable dates) falls into the aggregated row r
FallsIn(rec, r) ==
    /\ rec.Name = r.Name
    /\ rec.Start.v <= rec.End.v
    /\ r.week_start \in WeeksTouched(rec.Start.v, rec.End.v)
    /\ ClipStart(rec.Start.v, r.week_start) = r.Start
    /\ ClipEnd(rec.End.v, r.week_start) = r.End

RECURSIVE EffortOver(_)
EffortOver(I) ==
    IF I = {} THEN 0
    ELSE LET i == CHOOSE i \in I : TRUE
         IN  df[i].Effort.v + EffortOver(I \ {i})

\* an input row the normalizer keeps
Valid(d) == d.Start.k = "val" /\ d.End.k = "val" /\ d.Effort.k = "val"

RECURSIVE RawEffortOver(_)
RawEffortOver(D) ==
    IF D = {} THEN 0
    ELSE LET d == CHOOSE d \in D : TRUE
         IN  d.Effort.v + RawEffortOver(D \ {d})

\* the distinct trimmed non-empty skill tokens of an input row
Tokens(d) ==
    LET lists == (IF d.CoreSkill.k = "val" THEN Range(split(d.CoreSkill.v)) ELSE {})
                 \cup (IF d.OtherSkills.k = "val" THEN Range(split(d.OtherSkills.v)) ELSE {})
    IN  {strip(s) : s \in lists} \ {<<>>}

\* the names of a set of projects in ascending order, each once
Ascending(P) ==
    CHOOSE q \in [1..Cardinality(P) -> P] :
        \A a, b \in 1..Cardinality(P) : a < b => StrLess(q[a], q[b])

(***************************************************************************)
(* C3  Effort additivity, as claimed: every aggregated row carries the sum *)
(* of the efforts of every input row of that consultant whose date range   *)
(* touches the row's week.                                                 *)
(***************************************************************************)
EffortPerConsultantWeek ==
    Aggregated =>
        \A r \in weekly_sum :
            r.EffortPct =
                RawEffortOver({d \in Range(dataset) :
                    /\ Valid(d)
                    /\ d.Name = r.Name
                    /\ r.week_start \in WeeksTouched(d.Start.v, d.End.v)})

(***************************************************************************)
(* C3 as amended: there is one aggregated row per (consultant, week_start, *)
(* period_start, period_end, skill) with a contributing record, and its    *)
(* effort_total is the sum of the efforts of the normalized per-skill      *)
(* records of that consultant and skill whose range, clipped to that week, *)
(* is exactly [period_start, period_end]; two projects of one consultant   *)
(* add up into one row when skill and clipped period coincide (30 and 40   *)
(* give 70, label "A, B").                                                 *)
(***************************************************************************)
EffortAdditivity ==
    Aggregated =>
        /\ \A r \in weekly_sum :
               r.EffortPct =
                   EffortOver({i \in 1..Len(df) :
                       df[i].Skill = Str(r.Skill) /\ FallsIn(df[i], r)})
        /\ \A r1, r2 \in weekly_sum :
               <<r1.Name, r1.week_start, r1.Start, r1.End, r1.Skill>>
                   = <<r2.Name, r2.week_start, r2.Start, r2.End, r2.Skill>>
               => r1 = r2
        /\ \A i \in Forward : \A w \in WeeksTouched(df[i].Start.v, df[i].End.v) :
               df[i].Skill.k = "val" =>
                   \E r \in weekly_sum :
                       /\ r.week_start = w
                       /\ df[i].Skill = Str(r.Skill)
                       /\ FallsIn(df[i], r)
        /\ dataset = <<RawRow("Bob", <<65>>, Num(30), Num(7), Num(13),
                              Str(<<"x">>), NoStr),
                       RawRow("Bob", <<66>>, Num(40), Num(7), Num(13),
                              Str(<<"x">>), NoStr)>>
               => weekly_sum =
                      {[Name |-> "Bob", week_start |-> 7, Start |-> 7,
                        End |-> 13, Skill |-> <<"x">>, EffortPct |-> 70,
                        Projects |-> <<65, 44, 32, 66>>]}

EffortAdditivityWitness ==
    /\ Aggregated
    /\ Len(df) = 2
    /\ df[1].Projects # df[2].Projects
    /\ \E r \in weekly_sum : r.EffortPct = df[1].Effort.v + df[2].Effort.v

(***************************************************************************)
(* C4  Label determinism: the label of every aggregated row is the         *)
(* distinct project names of the input rows contributing to its key, in    *)
(* ascending order, each once, joined with ", ".  The right-hand side is   *)
(* a function of the set of input rows, so the label is the same for       *)
(* every order of the rows (every order of the rows is an initial state).  *)
(***************************************************************************)
LabelDeterminism ==
    Aggregated =>
        \A r \in weekly_sum :
            LET P == {d.Projects : d \in {d \in Range(dataset) :
                         /\ Valid(d)
                         /\ r.Skill \in Tokens(d)
                         /\ FallsIn(d, r)}}
            IN  /\ P # {}
                /\ r.Projects = join(Ascending(P))

LabelDeterminismWitness ==
    /\ Aggregated
    /\ Len(dataset) = 2
    /\ StrLess(dataset[2].Projects, dataset[1].Projects)
    /\ \E r \in weekly_sum :
           r.Projects = dataset[2].Projects \o <<44, 32>> \o dataset[1].Projects

(***************************************************************************)
(* C5  Filter monotonicity: the filtered rows are exactly the aggregated   *)
(* rows inside the window whose consultant and skill are selected, the     *)
(* aggregated collection is left as the aggregation made it, and with all  *)
(* consultants, all skills and the window [min Start, max End] every       *)
(* aggregated row is returned.                                             *)
(***************************************************************************)
FilterMonotonicity ==
    Filtered =>
        /\ filtered_df \subseteq expanded_df
        /\ \A r \in expanded_df :
               r \in filtered_df <=>
                   /\ r.Start >= start_date
                   /\ r.End <= end_date
                   /\ r.Name \in consultant_names
                   /\ r.Skill \in selected_skills
        /\ expanded_df = weekly_sum
        /\ expanded_df = Aggregate(rows)
        /\ ( /\ expanded_df # {}
             /\ consultant_names = {r.Name : r \in expanded_df}
             /\ selected_skills = {r.Skill : r \in expanded_df}
             /\ start_date = MinOf({r.Start : r \in expanded_df})
             /\ end_date = MaxOf({r.End : r \in expanded_df}) )
               => filtered_df = expanded_df

FilterMonotonicityWitness ==
    /\ pc = "done"
    /\ filtered_df # expanded_df
    /\ Cardinality(expanded_df) >= 3
    /\ start_date > MinOf({r.Start : r \in expanded_df})

(***************************************************************************)
(* C6  Empty selection, as claimed: when the filter has run with no        *)
(* consultant or no skill selected, the result is empty, a warning is      *)
(* shown and the run does not end in an error.                             *)
(***************************************************************************)
EmptySelection ==
    (/\ Filtered
     /\ expanded_df # {}
     /\ consultant_names = {} \/ selected_skills = {})
        => /\ filtered_df = {}
           /\ warnings # {}
           /\ pc # "crash"

(***************************************************************************)
(* C7  Skill expansion, as claimed: after the expander every input row     *)
(* has exactly one record per distinct trimmed non-empty skill token of    *)
(* its two lists (the placeholder record that explode keeps for a row      *)
(* without skills is not counted).                                         *)
(***************************************************************************)
SkillExpansion ==
    pc = "coerce" =>
        \A d \in Range(dataset) :
            LET recs == {i \in 1..Len(df) :
                            /\ df[i].Skill.k = "val"
                            /\ df[i] = WithSkill(d, df[i].Skill)}
            IN  /\ {df[i].Skill.v : i \in recs} = Tokens(d)
                /\ Cardinality(recs) = Cardinality(Tokens(d))

(***************************************************************************)
(* C8  All rows invalid, as claimed: when the normalizer drops every row   *)
(* (missing start, end or effort, or an effort that is no number), the     *)
(* run does not end in an error of a later stage.                          *)
(***************************************************************************)
AllRowsInvalid ==
    (/\ \A d \in Range(dataset) :
            /\ ~Valid(d)
            /\ d.Start.k # "text"
            /\ d.End.k # "text"
     /\ pc \in {"done", "crash"})
        => pc # "crash"

====
